---- MODULE Spec2Model ----
(***************************************************************************)
(* Model of the DNA Center dynamic inventory plugin                        *)
(* (src/dynamic_inventory/dna_center.py, class InventoryModule).           *)
(*                                                                         *)
(* Text values the plugin transforms (site names, device families,         *)
(* software types, serial numbers, group names) are sequences of Unicode   *)
(* code points, so that str.translate, str.lower, str.find and str.split   *)
(* are computed character by character as Python computes them.  Values    *)
(* the plugin only passes along (ids, versions, roles) are opaque.         *)
(***************************************************************************)
EXTENDS Integers, Sequences, FiniteSets, TLC

\* ------------------------------------------------------------------ bounds
\* Largest number of devices the remote platform holds.
MaxDevices == 3
\* Largest api_record_limit (page size) the configuration file gives.
MaxPageSize == 2
\* Number of parse() invocations made on one plugin instance.
MaxRuns == 2

\* ---------------------------------------------------------- text helpers
RECURSIVE Concat(_)
\* ''.join(parts)
Concat(parts) ==
    IF parts = <<>> THEN <<>> ELSE Head(parts) \o Concat(Tail(parts))

\* str.find(sub): lowest 0-based index where sub occurs in s, or -1.
Find(s, sub) ==
    LET hits == { i \in 0..(Len(s) - Len(sub)) :
                    SubSeq(s, i + 1, i + Len(sub)) = sub }
    IN  IF hits = {} THEN -1
        ELSE CHOOSE i \in hits : \A j \in hits : i <= j

RECURSIVE Split(_, _)
\* str.split(sep) for a non-empty separator.
Split(s, sep) ==
    LET at == Find(s, sep)
    IN  IF at = -1 THEN << s >>
        ELSE << SubSeq(s, 1, at) >>
             \o Split(SubSeq(s, at + Len(sep) + 1, Len(s)), sep)

\* str.lower() of one code point, for the Basic Latin and Latin-1 blocks:
\* A-Z and the Latin-1 capitals (U+00C0..U+00DE except the multiplication
\* sign U+00D7) move up by 32; every other code point is unchanged.
LowerChar(c) ==
    IF (c >= 65 /\ c <= 90) \/ (c >= 192 /\ c <= 222 /\ c # 215)
    THEN c + 32 ELSE c

\* str.lower()
Lower(s) == [ i \in 1..Len(s) |-> LowerChar(s[i]) ]

\* ------------------------------------------------------- string literals
\* 'Unified AP'
UnifiedAP == << 85, 110, 105, 102, 105, 101, 100, 32, 65, 80 >>
\* ', '
CommaSpace == << 44, 32 >>
\* 'bld_'
BldPrefix == << 98, 108, 100, 95 >>
\* 'ungrouped'
Ungrouped == << 117, 110, 103, 114, 111, 117, 112, 101, 100 >>
\* ['ios', 'ios-xe', 'unified ap']
IosNames == { << 105, 111, 115 >>,
              << 105, 111, 115, 45, 120, 101 >>,
              << 117, 110, 105, 102, 105, 101, 100, 32, 97, 112 >> }
\* ['nxos', 'nx-os']
NxosNames == { << 110, 120, 111, 115 >>, << 110, 120, 45, 111, 115 >> }

\* ------------------------------------------------- the remote platform
\* A raw device record of get_device_list, with the fields _get_hosts reads.
\* Device 1 is a router (IOS-XE, two serial numbers), device 2 an access
\* point, device 3 a switch (NX-OS); further devices repeat the pattern with
\* a family that holds 'Unified AP' in its middle and a Linux appliance.
Family(i) ==
    CASE i % 4 = 1 -> << 82, 111, 117, 116, 101, 114, 115 >>            \* 'Routers'
      [] i % 4 = 2 -> UnifiedAP                                         \* 'Unified AP'
      [] i % 4 = 3 -> << 83, 119, 105, 116, 99, 104, 101, 115 >>        \* 'Switches'
      [] OTHER     -> << 77, 101, 115, 104, 32 >> \o UnifiedAP \o << 115 >>  \* 'Mesh Unified APs'

SoftwareType(i) ==
    CASE i % 4 = 1 -> << 73, 79, 83, 45, 88, 69 >>                      \* 'IOS-XE'
      [] i % 4 = 3 -> << 78, 88, 45, 79, 83 >>                          \* 'NX-OS'
      [] OTHER     -> << 76, 105, 110, 117, 120 >>                      \* 'Linux'

RawDevice(i) ==
    [ id                  |-> i,
      hostname            |-> << 104, 48 + i >>,                         \* 'h<i>'
      managementIpAddress |-> << 49, 48, 46, 48, 46, 48, 46, 48 + i >>,  \* '10.0.0.<i>'
      family              |-> Family(i),
      softwareType        |-> SoftwareType(i),
      softwareVersion     |-> "17.3",
      reachabilityStatus  |-> "Reachable",
      role                |-> "ACCESS",
      serialNumber        |-> IF i % 4 = 1
                              THEN << 65, 49, 44, 32, 66, 50 >>          \* 'A1, B2'
                              ELSE << 67, 48 + i >>,                     \* 'C<i>'
      series              |-> "C9300" ]

\* The device lists the remote platform may hold: devices 1..n in ascending
\* or in descending order of id, for every n up to MaxDevices.
RemoteDeviceLists ==
    { [ i \in 1..n |-> RawDevice(i) ] : n \in 0..MaxDevices }
    \cup { [ i \in 1..n |-> RawDevice(n + 1 - i) ] : n \in 2..MaxDevices }

\* Raw sites of get_site_topology.
\* 'Global'
SiteGlobal ==
    [ name |-> << 71, 108, 111, 98, 97, 108 >>,
      id |-> 1, parentId |-> 0, locationType |-> "area" ]
\* 'M<u-umlaut>nchen (S<u-umlaut>d)', a building under site 1
SiteBuilding ==
    [ name |-> << 77, 252, 110, 99, 104, 101, 110, 32, 40, 83, 252, 100, 41 >>,
      id |-> 2, parentId |-> 1, locationType |-> "building" ]
\* the same name as a floor, whose parent 99 is no known site
SiteFloor ==
    [ name |-> << 77, 252, 110, 99, 104, 101, 110, 32, 40, 83, 252, 100, 41 >>,
      id |-> 3, parentId |-> 99, locationType |-> "floor" ]
\* 'HQ-1.a', a building that names itself as its parent
SiteSelf ==
    [ name |-> << 72, 81, 45, 49, 46, 97 >>,
      id |-> 4, parentId |-> 4, locationType |-> "building" ]

\* The site lists the remote platform may hold (site ids are unique).
RemoteSiteLists ==
    { << >>,
      << SiteGlobal, SiteBuilding, SiteFloor >>,
      << SiteBuilding, SiteGlobal >>,
      << SiteGlobal, SiteSelf >> }

\* A node of get_physical_topology: device i is placed in the site of id i.
TopologyNode(i) == [ id |-> i, additionalInfo |-> [ siteid |-> i ] ]

\* The node lists the remote platform may hold: a node for every device, or
\* a node for every device but device 1.
RemoteNodeLists ==
    { [ i \in 1..MaxDevices |-> TopologyNode(i) ],
      [ i \in 1..(MaxDevices - 1) |-> TopologyNode(i + 1) ] }

\* The options of the configuration file that parse() reads.
\* toplevel << >> stands for an absent (None or empty) option.
OptionSets ==
    [ toplevel          : { << >>, << 114, 111, 111, 116 >> },           \* 'root'
      api_record_limit  : 1..MaxPageSize,
      use_dnac_mgmt_int : BOOLEAN,
      hostname_filter   : { "edge.*" },
      device_family     : { << "Switches and Hubs", "Routers" >> },
      location_name     : { "Global/EMEA" } ]

\* ------------------------------------------------------------------ state
VARIABLES
    \* the remote platform and the configuration file
    remoteDevices, remoteSites, remoteNodes, options,
    \* InventoryModule attributes
    api_record_limit, toplevel, use_dnac_mgmt_int,
    hostname_filter, device_family, location_name,
    _inventory, _site_list, _host_list,
    \* position of the run
    pc, runs, error, offset, offset_pages, siteIdx, hostIdx,
    \* requests sent to the remote platform in this run, the page results
    \* received in this run, and the value _get_inventory returned
    apiLog, pages, returned,
    \* the target inventory of this run and the calls made on it
    invGroups, invEdges, invHosts, invVars, invLog

remoteVars == << remoteDevices, remoteSites, remoteNodes, options >>
configVars == << api_record_limit, toplevel, use_dnac_mgmt_int,
                 hostname_filter, device_family, location_name >>
dataVars   == << _inventory, _site_list, _host_list >>
loopVars   == << offset, offset_pages, siteIdx, hostIdx >>
fetchVars  == << apiLog, pages, returned >>
invState   == << invGroups, invEdges, invHosts, invVars, invLog >>
vars == << remoteVars, configVars, dataVars, pc, runs, error, loopVars,
           fetchVars, invState >>

\* api_record_limit as __init__ sets it.
DefaultRecordLimit == 500

NotReturned == [ set |-> FALSE, value |-> << >> ]

\* InventoryModule.__init__: the state of a constructed plugin instance.
\* The None of _site_list and _host_list is written << >>: neither is read
\* before _get_sites and _get_hosts assign it.
Init ==
    /\ remoteDevices \in RemoteDeviceLists
    /\ remoteSites \in RemoteSiteLists
    /\ remoteNodes \in RemoteNodeLists
    /\ options \in OptionSets
    /\ api_record_limit = DefaultRecordLimit
    /\ toplevel = << >>
    /\ use_dnac_mgmt_int = FALSE
    /\ hostname_filter = "None"
    /\ device_family = << >>
    /\ location_name = "None"
    /\ _inventory = << >>
    /\ _site_list = << >>
    /\ _host_list = << >>
    /\ pc = "idle"
    /\ runs = 0
    /\ error = "none"
    /\ offset = 0
    /\ offset_pages = 0
    /\ siteIdx = 1
    /\ hostIdx = 1
    /\ apiLog = << >>
    /\ pages = << >>
    /\ returned = NotReturned
    /\ invGroups = {}
    /\ invEdges = {}
    /\ invHosts = {}
    /\ invVars = << >>
    /\ invLog = << >>

\* --------------------------------------------------- remote API requests
\* One request as the remote platform sees it.  Requests without paging or
\* filters carry the placeholders below.
Request(op, ok, limit, start, hostname, family, location) ==
    [ op |-> op, ok |-> ok, limit |-> limit, offset |-> start,
      hostname |-> hostname, family |-> family, location_name |-> location ]

PlainRequest(op, ok) == Request(op, ok, 0, 0, "None", << >>, "None")

\* The records the remote platform returns for get_device_list(limit, offset):
\* up to limit records from the 1-based position offset.
DeviceListResponse(limit, start) ==
    LET last == IF start + limit - 1 < Len(remoteDevices)
                THEN start + limit - 1 ELSE Len(remoteDevices)
    IN  SubSeq(remoteDevices, start, last)

\* A fatal error leaves parse(): no later statement of the run executes.
Raise(kind) ==
    /\ pc' = "failed"
    /\ error' = kind

\* ------------------------------------------------------------ parse, login
\* parse(), lines 345-368: take the target inventory the caller hands to this
\* run (an empty one) and set the attributes from the options of the
\* configuration file; an exception of get_option (taken here at the first
\* option, before any attribute is set) becomes AnsibleParserError.
ParseOptions ==
    /\ pc \in { "idle", "done", "failed" }
    /\ runs < MaxRuns
    /\ runs' = runs + 1
    /\ \/ /\ pc' = "login"
          /\ error' = "none"
          /\ toplevel' = options.toplevel
          /\ api_record_limit' = options.api_record_limit
          /\ use_dnac_mgmt_int' = options.use_dnac_mgmt_int
          /\ hostname_filter' = options.hostname_filter
          /\ device_family' = options.device_family
          /\ location_name' = options.location_name
       \/ /\ Raise("AnsibleParserError: getting options failed")
          /\ UNCHANGED configVars
    /\ offset' = 0
    /\ offset_pages' = 0
    /\ siteIdx' = 1
    /\ hostIdx' = 1
    /\ apiLog' = << >>
    /\ pages' = << >>
    /\ returned' = NotReturned
    /\ invGroups' = {}
    /\ invEdges' = {}
    /\ invHosts' = {}
    /\ invVars' = << >>
    /\ invLog' = << >>
    /\ UNCHANGED << remoteVars, dataVars >>

\* _login(), lines 117-135: the session is opened, or ApiError becomes
\* AnsibleError.
Login ==
    /\ pc = "login"
    /\ \/ pc' = "count" /\ error' = error
       \/ Raise("AnsibleError: failed to login")
    /\ UNCHANGED << remoteVars, configVars, dataVars, runs, loopVars,
                    fetchVars, invState >>

\* -------------------------------------------------------- _get_inventory
\* math.ceil(device_count / api_record_limit), for device_count >= 0 and
\* api_record_limit >= 1.
OffsetPages(device_count, limit) == (device_count + limit - 1) \div limit

\* start_index = offset * self.api_record_limit + 1
StartIndex(off, limit) == off * limit + 1

\* _get_inventory, lines 142-149 (and line 167 when there is no page): the
\* count query and the number of pages.
GetDeviceCount ==
    /\ pc = "count"
    /\ \/ /\ apiLog' = Append(apiLog, PlainRequest("get_device_count", TRUE))
          /\ offset_pages' = OffsetPages(Len(remoteDevices), api_record_limit)
          /\ offset' = 0
          /\ IF offset_pages' = 0
             THEN /\ returned' = [ set |-> TRUE, value |-> _inventory ]
                  /\ pc' = "get_sites"
             ELSE /\ returned' = returned
                  /\ pc' = "page"
          /\ error' = error
       \/ /\ apiLog' = Append(apiLog, PlainRequest("get_device_count", FALSE))
          /\ Raise("AnsibleParserError: Getting device count failed")
          /\ UNCHANGED << offset, offset_pages, returned >>
    /\ UNCHANGED << remoteVars, configVars, dataVars, runs, siteIdx, hostIdx,
                    pages, invState >>

\* The request of one loop iteration, lines 154-161.
PageRequest(ok) ==
    Request("get_device_list", ok, api_record_limit,
            StartIndex(offset, api_record_limit),
            hostname_filter, device_family, location_name)

\* A mutant of PageFailed: the failed page is skipped and the loop goes on
\* with what it has.
PageFailedSkipped ==
    /\ offset' = offset + 1
    /\ IF offset + 1 = offset_pages
       THEN /\ returned' = [ set |-> TRUE, value |-> _inventory ]
            /\ pc' = "get_sites"
       ELSE /\ returned' = returned
            /\ pc' = "page"
    /\ error' = error
    /\ UNCHANGED << pages, _inventory >>

\* The except branch of lines 162-163: ApiError on a page request becomes
\* AnsibleParserError; nothing is accumulated or returned.
PageFailed ==
    /\ Raise("AnsibleParserError: Getting device inventory failed")
    /\ UNCHANGED << pages, _inventory, offset, returned >>

\* One iteration of the loop of lines 151-165, and the return of line 167
\* after the last one.
GetDevicePage ==
    /\ pc = "page"
    /\ offset < offset_pages
    /\ \/ LET inventory_results ==
                  DeviceListResponse(api_record_limit,
                                     StartIndex(offset, api_record_limit))
          IN  /\ apiLog' = Append(apiLog, PageRequest(TRUE))
              /\ pages' = Append(pages, inventory_results)
              /\ _inventory' = _inventory \o inventory_results
              /\ offset' = offset + 1
              /\ IF offset + 1 = offset_pages
                 THEN /\ returned' = [ set |-> TRUE, value |-> _inventory' ]
                      /\ pc' = "get_sites"
                 ELSE /\ returned' = returned
                      /\ pc' = "page"
              /\ error' = error
       \/ /\ apiLog' = Append(apiLog, PageRequest(FALSE))
          /\ PageFailed
    /\ UNCHANGED << remoteVars, configVars, _site_list, _host_list, runs,
                    offset_pages, siteIdx, hostIdx, invState >>

\* ------------------------------------------------------------ _get_sites
\* A mutant of special_char_map: the entry of ')' is lost.
special_char_map_short(c) ==
    CASE c = 228 -> << 97, 101 >>
      [] c = 252 -> << 117, 101 >>
      [] c = 246 -> << 111, 101 >>
      [] c = 223 -> << 115, 115 >>
      [] c \in { 40, 32, 45, 46 } -> << 95 >>
      [] OTHER   -> << c >>

\* special_char_map, line 214: the replacement of one code point by
\* str.translate; a code point the table lacks is kept.
special_char_map(c) ==
    CASE c = 228 -> << 97, 101 >>        \* a-umlaut -> 'ae'
      [] c = 252 -> << 117, 101 >>       \* u-umlaut -> 'ue'
      [] c = 246 -> << 111, 101 >>       \* o-umlaut -> 'oe'
      [] c = 223 -> << 115, 115 >>       \* sharp s  -> 'ss'
      [] c = 40  -> << 95 >>             \* '(' -> '_'
      [] c = 41  -> << 95 >>             \* ')' -> '_'
      [] c = 32  -> << 95 >>             \* ' ' -> '_'
      [] c = 45  -> << 95 >>             \* '-' -> '_'
      [] c = 46  -> << 95 >>             \* '.' -> '_'
      [] OTHER   -> << c >>

\* site['name'].translate(special_char_map).lower(), line 215
normalized_site_name(name) ==
    Lower(Concat([ i \in 1..Len(name) |-> special_char_map(name[i]) ]))

\* site_dict of lines 217-221
site_dict(site) ==
    [ name     |-> IF site.locationType = "building"
                   THEN BldPrefix \o normalized_site_name(site.name)
                   ELSE normalized_site_name(site.name),
      id       |-> site.id,
      parentId |-> site.parentId ]

\* _get_sites, lines 204-226
GetSites ==
    /\ pc = "get_sites"
    /\ \/ /\ apiLog' = Append(apiLog, PlainRequest("get_site_topology", TRUE))
          /\ _site_list' = [ i \in 1..Len(remoteSites) |-> site_dict(remoteSites[i]) ]
          /\ pc' = "add_sites"
          /\ error' = error
       \/ /\ apiLog' = Append(apiLog, PlainRequest("get_site_topology", FALSE))
          /\ Raise("AnsibleError: Getting site topology failed")
          /\ UNCHANGED _site_list
    /\ UNCHANGED << remoteVars, configVars, _inventory, _host_list, runs,
                    loopVars, pages, returned, invState >>

\* ------------------------------------------------------------ _add_sites
\* One call made on the target inventory.
Call(op, host, group, key, val) ==
    [ op |-> op, host |-> host, group |-> group, key |-> key, val |-> val ]

\* _add_sites, lines 262-270: the top-level group, when one is configured
\* (a non-empty string), then every site, are added as groups.
AddSiteGroups ==
    /\ pc = "add_sites"
    /\ LET top   == IF toplevel # << >>
                    THEN << Call("add_group", << >>, toplevel, "", << >>) >>
                    ELSE << >>
           sites == [ i \in 1..Len(_site_list) |->
                        Call("add_group", << >>, _site_list[i].name, "", << >>) ]
       IN  /\ invLog' = invLog \o top \o sites
           /\ invGroups' = invGroups
                           \cup { (top \o sites)[i].group : i \in 1..Len(top \o sites) }
    /\ siteIdx' = 1
    /\ pc' = IF Len(_site_list) = 0 THEN "get_hosts" ELSE "add_child"
    /\ UNCHANGED << remoteVars, configVars, dataVars, runs, error, offset,
                    offset_pages, hostIdx, fetchVars, invEdges, invHosts, invVars >>

\* A mutant of ParentGroup: the top-level fallback of line 281 is lost.
ParentGroupNoToplevel(site) ==
    LET matches == SelectSeq(_site_list, LAMBDA ste : ste.id = site.parentId)
    IN  IF matches # << >>
        THEN [ has |-> TRUE, name |-> matches[1].name ]
        ELSE [ has |-> FALSE, name |-> << >> ]

\* The parent group lines 275-285 choose for a site: the name of the first
\* site whose id is the site's parentId, else the top-level group when one is
\* configured, else none (no add_child call is made).
ParentGroup(site) ==
    LET site_ids == { _site_list[i].id : i \in 1..Len(_site_list) }
        first    == CHOOSE i \in 1..Len(_site_list) :
                       /\ _site_list[i].id = site.parentId
                       /\ \A j \in 1..(i - 1) : _site_list[j].id # site.parentId
    IN  IF site.parentId \in site_ids
        THEN [ has |-> TRUE, name |-> _site_list[first].name ]
        ELSE IF toplevel # << >>
        THEN [ has |-> TRUE, name |-> toplevel ]
        ELSE [ has |-> FALSE, name |-> << >> ]

\* One iteration of the loop of lines 273-285.  The target inventory accepts
\* the edge, or raises and the exception becomes AnsibleParserError.
AddChild ==
    /\ pc = "add_child"
    /\ siteIdx <= Len(_site_list)
    /\ LET site   == _site_list[siteIdx]
           parent == ParentGroup(site)
           next   == /\ siteIdx' = siteIdx + 1
                     /\ pc' = IF siteIdx = Len(_site_list)
                              THEN "get_hosts" ELSE "add_child"
                     /\ error' = error
       IN  IF ~parent.has
           THEN next /\ UNCHANGED << invEdges, invLog >>
           ELSE \/ /\ invLog' = Append(invLog,
                          Call("add_child", << >>, parent.name, "", site.name))
                   /\ invEdges' = invEdges \cup { << parent.name, site.name >> }
                   /\ next
                \/ /\ Raise("AnsibleParserError: adding child sites failed")
                   /\ UNCHANGED << siteIdx, invEdges, invLog >>
    /\ UNCHANGED << remoteVars, configVars, dataVars, runs, offset,
                    offset_pages, hostIdx, fetchVars, invGroups, invHosts, invVars >>

\* ------------------------------------------------------------ _get_hosts
\* A mutant of IsInventorized: the access point filter is lost.
IsInventorizedAlways(host) == TRUE

\* The test of line 179: the family does not contain 'Unified AP'.
IsInventorized(host) == Find(host.family, UnifiedAP) = -1

\* host_dict of lines 180-192
host_dict(host) ==
    [ managementIpAddress |-> host.managementIpAddress,
      hostname           |-> host.hostname,
      id                 |-> host.id,
      os                 |-> IF Find(host.family, UnifiedAP) = -1
                             THEN host.softwareType ELSE host.family,
      version            |-> host.softwareVersion,
      reachabilityStatus |-> host.reachabilityStatus,
      role               |-> host.role,
      serialNumber       |-> Split(host.serialNumber, CommaSpace),
      series             |-> host.series,
      host_data          |-> host ]

RECURSIVE HostList(_)
\* The loop of lines 175-193 over an inventory.
HostList(inventory) ==
    IF inventory = << >> THEN << >>
    ELSE (IF IsInventorized(Head(inventory))
          THEN << host_dict(Head(inventory)) >> ELSE << >>)
         \o HostList(Tail(inventory))

\* _get_hosts, lines 169-197
GetHosts ==
    /\ pc = "get_hosts"
    /\ _host_list' = HostList(_inventory)
    /\ hostIdx' = 1
    /\ pc' = IF _host_list' = << >> THEN "done" ELSE "add_hosts"
    /\ UNCHANGED << remoteVars, configVars, _inventory, _site_list, runs,
                    error, offset, offset_pages, siteIdx, fetchVars, invState >>

\* ------------------------------------------- _get_member_site, _add_hosts
\* _get_member_site after its topology query succeeded, lines 240-253:
\*   "IndexError" when no node has the device id (the [0] of line 241),
\*   "name"       when exactly one site has the node's siteid,
\*   "ungrouped"  when no site has it,
\*   "None"       when several sites have it (neither branch returns).
MemberSite(device_id) ==
    LET devices   == SelectSeq(remoteNodes, LAMBDA dev : dev.id = device_id)
        site_id   == devices[1].additionalInfo.siteid
        site_name == SelectSeq(_site_list, LAMBDA site : site.id = site_id)
    IN  IF devices = << >> THEN [ kind |-> "IndexError", name |-> << >> ]
        ELSE IF Len(site_name) = 1
        THEN [ kind |-> "name", name |-> site_name[1].name ]
        ELSE IF Len(site_name) = 0
        THEN [ kind |-> "ungrouped", name |-> Ungrouped ]
        ELSE [ kind |-> "None", name |-> << >> ]

\* The set_variable calls of lines 301-312, in order.
BaseVariables(h, site_name) ==
    (IF use_dnac_mgmt_int
     THEN << Call("set_variable", h.hostname, << >>, "ansible_host",
                  h.managementIpAddress) >>
     ELSE << >>)
    \o << Call("set_variable", h.hostname, << >>, "os", h.os),
          Call("set_variable", h.hostname, << >>, "version", h.version),
          Call("set_variable", h.hostname, << >>, "reachability_status",
               h.reachabilityStatus),
          Call("set_variable", h.hostname, << >>, "serial_number", h.serialNumber),
          Call("set_variable", h.hostname, << >>, "hw_type", h.series),
          Call("set_variable", h.hostname, << >>, "id", h.id),
          Call("set_variable", h.hostname, << >>, "site", site_name),
          Call("set_variable", h.hostname, << >>, "host_data", h.host_data) >>

\* The set_variable calls of lines 314-323, in order.
NetworkOsVariables(h) ==
    LET hints(network_os) ==
            << Call("set_variable", h.hostname, << >>, "ansible_network_os", network_os),
               Call("set_variable", h.hostname, << >>, "ansible_connection", "network_cli"),
               Call("set_variable", h.hostname, << >>, "ansible_become", "yes"),
               Call("set_variable", h.hostname, << >>, "ansible_become_method", "enable") >>
    IN  IF Lower(h.os) \in IosNames THEN hints("ios")
        ELSE IF Lower(h.os) \in NxosNames THEN hints("nxos")
        ELSE << >>

RECURSIVE HostVars(_, _)
\* The variables of a host after set_variable calls are applied to them.
HostVars(host_vars, calls) ==
    IF calls = << >> THEN host_vars
    ELSE HostVars((Head(calls).key :> Head(calls).val) @@ host_vars, Tail(calls))

\* The variables handed to _set_composite_vars, line 325:
\* self.inventory.get_host(host_name).get_vars()
ComposeVariables(host_vars) == host_vars

\* The variables handed to _add_host_to_composed_groups and
\* _add_host_to_keyed_groups, lines 326-327: dict()
GroupsVariables(host_vars) == << >>

\* The rule evaluations of lines 325-327, in order, each with the variables
\* it is handed.
RuleCalls(h, host_vars) ==
    << Call("compose", h.hostname, << >>, "", ComposeVariables(host_vars)),
       Call("groups", h.hostname, << >>, "", GroupsVariables(host_vars)),
       Call("keyed_groups", h.hostname, << >>, "", GroupsVariables(host_vars)) >>

\* One iteration of the loop of lines 295-329, with the topology query that
\* _get_member_site makes for the host (lines 235-238).
AddHost ==
    /\ pc = "add_hosts"
    /\ hostIdx <= Len(_host_list)
    /\ LET h == _host_list[hostIdx]
       IN  \/ /\ apiLog' = Append(apiLog, PlainRequest("get_physical_topology", FALSE))
              /\ Raise("AnsibleError: Getting member site failed")
              /\ UNCHANGED << hostIdx, invHosts, invVars, invLog >>
           \/ /\ apiLog' = Append(apiLog, PlainRequest("get_physical_topology", TRUE))
              /\ LET member == MemberSite(h.id)
                 IN  IF member.kind = "IndexError"
                     THEN /\ Raise("IndexError: list index out of range")
                          /\ UNCHANGED << hostIdx, invHosts, invVars, invLog >>
                     ELSE IF member.name = << >>
                     THEN /\ Raise("AnsibleError: no site name found for host")
                          /\ UNCHANGED << hostIdx, invHosts, invVars, invLog >>
                     ELSE LET site_name == member.name
                              old   == IF h.hostname \in DOMAIN invVars
                                       THEN invVars[h.hostname] ELSE << >>
                              sets  == BaseVariables(h, site_name)
                                       \o NetworkOsVariables(h)
                              after == HostVars(old, sets)
                          IN  /\ invHosts' = invHosts \cup { << h.hostname, site_name >> }
                              /\ invVars' = [ x \in DOMAIN invVars \cup { h.hostname } |->
                                                IF x = h.hostname THEN after
                                                ELSE invVars[x] ]
                              /\ invLog' = invLog
                                    \o << Call("add_host", h.hostname, site_name, "", << >>) >>
                                    \o sets \o RuleCalls(h, after)
                              /\ hostIdx' = hostIdx + 1
                              /\ pc' = IF hostIdx = Len(_host_list)
                                       THEN "done" ELSE "add_hosts"
                              /\ error' = error
    /\ UNCHANGED << remoteVars, configVars, dataVars, runs, offset,
                    offset_pages, siteIdx, pages, returned, invGroups, invEdges >>

\* ------------------------------------------------------------ behaviours
Next ==
    \/ ParseOptions
    \/ Login
    \/ GetDeviceCount
    \/ GetDevicePage
    \/ GetSites
    \/ AddSiteGroups
    \/ AddChild
    \/ GetHosts
    \/ AddHost

Spec == Init /\ [][Next]_vars

\* ---------------------------------------------------------------- claims
\* The stages of a run that follow a stage's completion.
AfterGetSites == { "add_sites", "add_child", "get_hosts", "add_hosts", "done" }
AfterAddSites == { "get_hosts", "add_hosts", "done" }
AfterGetHosts == { "add_hosts", "done" }

\* The indices of the requests of one kind in the request log.
Requests(op) == { k \in 1..Len(apiLog) : apiLog[k].op = op }

\* ceil(n / p), by its defining inequalities.
CeilDiv(n, p) == CHOOSE k \in 0..n : k * p >= n /\ (k = 0 \/ (k - 1) * p < n)

\* The requests half of C1: one count query, then ceil(N/P) page requests in
\* increasing page index, request i with offset i*P+1, limit P and the
\* configured filters.
C1_Requests ==
    returned.set =>
        LET P == options.api_record_limit
            n == CeilDiv(Len(remoteDevices), P)
        IN  /\ Requests("get_device_count") = { 1 }
            /\ Requests("get_device_list") = 2..(n + 1)
            /\ \A i \in 0..(n - 1) :
                  apiLog[i + 2] = Request("get_device_list", TRUE, P, i * P + 1,
                                          options.hostname_filter,
                                          options.device_family,
                                          options.location_name)
            /\ Len(pages) = n

\* C1: for every device count N >= 0 and page size P >= 1, _get_inventory
\* issues exactly one count query followed by exactly ceil(N/P) page requests
\* in increasing page index, request i carrying offset i*P+1, limit P and the
\* same filters; on success the returned sequence is the concatenation of the
\* page results in request order.
C1_Collection ==
    /\ C1_Requests
    /\ returned.set => returned.value = Concat(pages)

\* C1 on the first invocation made on a constructed instance.
C1_FirstInvocation == runs = 1 => C1_Collection

\* The base attributes _add_hosts sets on every host.
BaseAttributes ==
    { "os", "version", "reachability_status", "serial_number", "hw_type",
      "id", "site", "host_data" }

\* No topology node has the host's id, or its node's siteid is no site's id.
HasNoSite(h) ==
    \/ \A n \in 1..Len(remoteNodes) : remoteNodes[n].id # h.id
    \/ \E n \in 1..Len(remoteNodes) :
          /\ remoteNodes[n].id = h.id
          /\ \A i \in 1..Len(_site_list) :
                _site_list[i].id # remoteNodes[n].additionalInfo.siteid

\* C2: a normalized host whose id matches no topology node, or whose node
\* carries a siteid that matches no site, resolves to 'ungrouped': the run does
\* not fail for it, it is registered under 'ungrouped', and all base
\* attributes are set on it.
C2_UngroupedFallback ==
    /\ error \notin { "IndexError: list index out of range",
                      "AnsibleError: no site name found for host" }
    /\ pc \in AfterGetHosts =>
          \A j \in 1..(hostIdx - 1) :
              HasNoSite(_host_list[j]) =>
                  LET name == _host_list[j].hostname
                  IN  /\ << name, Ungrouped >> \in invHosts
                      /\ name \in DOMAIN invVars
                      /\ BaseAttributes \subseteq DOMAIN invVars[name]
                      /\ invVars[name]["site"] = Ungrouped

\* The positions of _site_list, and whether a site's parentId is a site's id.
SiteIndices == 1..Len(_site_list)

HasParentSite(i) == \E p \in SiteIndices : _site_list[p].id = _site_list[i].parentId

\* The edges C3 expects of the sites and the configured top-level group.
ExpectedEdges ==
    { << _site_list[p].name, _site_list[i].name >> :
        << p, i >> \in { e \in SiteIndices \X SiteIndices :
                           _site_list[e[1]].id = _site_list[e[2]].parentId } }
    \cup { << options.toplevel, _site_list[i].name >> :
             i \in { x \in SiteIndices :
                       ~HasParentSite(x) /\ options.toplevel # << >> } }

\* The indices of the calls of one kind made on the target inventory.
Calls(op) == { k \in 1..Len(invLog) : invLog[k].op = op }

\* C3: after _add_sites completes without error the parent/child edges of the
\* target inventory are exactly: for each site s, (name of the site whose id
\* is s.parentId, s.name) if there is such a site; otherwise (toplevel,
\* s.name) if a top-level group is configured; otherwise no edge.  Every site
\* name, and the top-level name when configured, is registered as a group
\* before any edge is registered.
C3_Hierarchy ==
    /\ pc \in AfterAddSites => invEdges = ExpectedEdges
    /\ \A e \in Calls("add_child") :
          /\ \A i \in SiteIndices :
                \E g \in Calls("add_group") :
                    g < e /\ invLog[g].group = _site_list[i].name
          /\ options.toplevel # << >> =>
                \E g \in Calls("add_group") :
                    g < e /\ invLog[g].group = options.toplevel
          /\ \A g \in Calls("add_group") : g < e
    /\ \A edge \in invEdges : edge[1] \in invGroups /\ edge[2] \in invGroups

\* A run ended with a site under its parent site and a site under the
\* top-level group.
C3_Witness ==
    /\ pc = "done"
    /\ options.toplevel # << >>
    /\ \E i \in SiteIndices : HasParentSite(i)
    /\ \E i \in SiteIndices : ~HasParentSite(i)
    /\ Cardinality(invEdges) = 3

\* C4: site-name normalization as the claim words it, in three passes: fold
\* the diacritics, replace space, parentheses, hyphen and period with
\* underscore, lowercase.
FoldDiacritics(name) ==
    Concat([ i \in 1..Len(name) |->
               CASE name[i] = 228 -> << 97, 101 >>
                 [] name[i] = 252 -> << 117, 101 >>
                 [] name[i] = 246 -> << 111, 101 >>
                 [] name[i] = 223 -> << 115, 115 >>
                 [] OTHER -> << name[i] >> ])

ReplaceSpecial(name) ==
    [ i \in 1..Len(name) |->
        IF name[i] \in { 32, 40, 41, 45, 46 } THEN 95 ELSE name[i] ]

Lowercase(name) ==
    [ i \in 1..Len(name) |->
        IF name[i] \in 65..90 \/ name[i] \in (192..222) \ { 215 }
        THEN name[i] + 32 ELSE name[i] ]

NormalizedName(site) ==
    (IF site.locationType = "building" THEN BldPrefix ELSE << >>)
    \o Lowercase(ReplaceSpecial(FoldDiacritics(site.name)))

\* The rule of C4, without its example.
C4_General ==
    pc \in AfterGetSites =>
        /\ Len(_site_list) = Len(remoteSites)
        /\ \A i \in 1..Len(remoteSites) :
              /\ _site_list[i].name = NormalizedName(remoteSites[i])
              /\ _site_list[i].id = remoteSites[i].id
              /\ _site_list[i].parentId = remoteSites[i].parentId

\* 'M<u-umlaut>nchen (S<u-umlaut>d)'
MuenchenSued == << 77, 252, 110, 99, 104, 101, 110, 32, 40, 83, 252, 100, 41 >>

\* The name _get_sites gave the raw site i, compared with a given name.
YieldsName(i, name) ==
    remoteSites[i].name = MuenchenSued =>
        _site_list[i].name =
            (IF remoteSites[i].locationType = "building" THEN BldPrefix ELSE << >>)
            \o name

\* C4 as stated: the normalization above, and 'M<u-umlaut>nchen (S<u-umlaut>d)'
\* yields 'bld_muenchen_sued' for a building and 'muenchen_sued' for a floor.
C4_Original ==
    /\ C4_General
    /\ pc \in AfterGetSites =>
          \A i \in 1..Len(remoteSites) :
              YieldsName(i, << 109, 117, 101, 110, 99, 104, 101, 110, 95,
                               115, 117, 101, 100 >>)

\* C4 amended: the normalization above, and 'M<u-umlaut>nchen (S<u-umlaut>d)'
\* yields 'bld_muenchen__sued_' for a building and 'muenchen__sued_' for a
\* floor: each of ' ', '(' and ')' becomes an underscore of its own.
C4_Normalization ==
    /\ C4_General
    /\ pc \in AfterGetSites =>
          \A i \in 1..Len(remoteSites) :
              YieldsName(i, << 109, 117, 101, 110, 99, 104, 101, 110, 95, 95,
                               115, 117, 101, 100, 95 >>)

\* _get_sites normalized the name as a building and as a floor.
C4_Witness ==
    /\ pc = "add_sites"
    /\ \E i \in 1..Len(remoteSites) :
          remoteSites[i].name = MuenchenSued /\ remoteSites[i].locationType = "building"
    /\ \E i \in 1..Len(remoteSites) :
          remoteSites[i].name = MuenchenSued /\ remoteSites[i].locationType = "floor"

\* C5: a site whose parentId equals its own id is rejected: the run fails
\* with a hierarchy error and no self-edge (s.name, s.name) is ever present
\* in the target inventory.
C5_SelfParentRejected ==
    pc \in { "add_child" } \cup AfterAddSites =>
        \A i \in SiteIndices :
            _site_list[i].parentId = _site_list[i].id =>
                /\ << _site_list[i].name, _site_list[i].name >> \notin invEdges
                /\ pc \notin AfterAddSites

\* The three rule evaluations.
RuleOps == { "compose", "groups", "keyed_groups" }

\* The add_host call that opens the binding a call belongs to.
BindingStart(k) ==
    CHOOSE a \in Calls("add_host") :
        a < k /\ \A b \in Calls("add_host") : b < k => b <= a

\* C6: each of the three rule evaluations of a bound host (compose, groups,
\* keyed_groups) is invoked only after all base attributes of that host have
\* been set, and is handed the attributes just set on that host.
C6_RulesAfterAttributes ==
    \A k \in 1..Len(invLog) :
        invLog[k].op \in RuleOps =>
            \A attr \in BaseAttributes :
                \E j \in BindingStart(k)..(k - 1) :
                    /\ invLog[j].op = "set_variable"
                    /\ invLog[j].host = invLog[k].host
                    /\ invLog[j].key = attr
                    /\ attr \in DOMAIN invLog[k].val
                    /\ invLog[k].val[attr] = invLog[j].val

\* The ordering half of C6 alone.
C6_Ordering ==
    \A k \in 1..Len(invLog) :
        invLog[k].op \in RuleOps =>
            \A attr \in BaseAttributes :
                \E j \in BindingStart(k)..(k - 1) :
                    /\ invLog[j].op = "set_variable"
                    /\ invLog[j].host = invLog[k].host
                    /\ invLog[j].key = attr

\* The errors _get_inventory raises.
FetchErrors ==
    { "AnsibleParserError: Getting device count failed",
      "AnsibleParserError: Getting device inventory failed" }

\* C7: if the device-count query or the page request of index k fails,
\* device collection ends with a fetch error: the failed request is not
\* reissued, no page request of a greater index is issued, no partial device
\* sequence is returned, and no later stage (site fetch, group registration,
\* host registration) executes in that run.
C7_CollectionAborts ==
    \A k \in Requests("get_device_count") \cup Requests("get_device_list") :
        ~apiLog[k].ok =>
            /\ k = Len(apiLog)
            /\ pc = "failed"
            /\ error \in FetchErrors
            /\ ~returned.set
            /\ Requests("get_site_topology") = {}
            /\ Requests("get_physical_topology") = {}
            /\ invLog = << >>
            /\ invGroups = {} /\ invEdges = {} /\ invHosts = {}

\* A page request fails after an earlier page was fetched.
C7_Witness ==
    /\ pc = "failed"
    /\ Len(apiLog) >= 3
    /\ apiLog[Len(apiLog)].op = "get_device_list"
    /\ ~apiLog[Len(apiLog)].ok
    /\ apiLog[Len(apiLog) - 1].ok
    /\ _inventory # << >>

\* The family holds 'Unified AP' at some position.
ContainsUnifiedAP(family) ==
    \E at \in 1..Len(family) :
        /\ at + Len(UnifiedAP) - 1 <= Len(family)
        /\ \A c \in 1..Len(UnifiedAP) : family[at + c - 1] = UnifiedAP[c]

\* The positions of the raw sequence that survive, and the j-th of them.
Survivors == { i \in 1..Len(_inventory) : ~ContainsUnifiedAP(_inventory[i].family) }

Survivor(j) == CHOOSE i \in Survivors : Cardinality({ x \in Survivors : x <= i }) = j

\* C8: _get_hosts returns a sequence in which no record whose family contains
\* 'Unified AP' appears, every other record appears exactly once, and the
\* surviving records keep their order in the raw sequence.
C8_AccessPointsDropped ==
    pc \in AfterGetHosts =>
        /\ Len(_host_list) = Cardinality(Survivors)
        /\ \A j \in 1..Len(_host_list) :
              /\ _host_list[j].host_data = _inventory[Survivor(j)]
              /\ _host_list[j].id = _inventory[Survivor(j)].id
              /\ ~ContainsUnifiedAP(_host_list[j].host_data.family)

\* An access point between two other devices was dropped.
C8_Witness ==
    /\ pc = "done"
    /\ Len(_inventory) >= 3
    /\ ContainsUnifiedAP(_inventory[2].family)
    /\ Len(_host_list) = Len(_inventory) - 1
    /\ _host_list[2].host_data = _inventory[3]

\* C9: in one run the physical-topology query is issued exactly once,
\* whatever the number of normalized hosts; a topology transport failure can
\* only occur before the first host is registered.
C9_SingleTopologyQuery ==
    /\ Cardinality(Requests("get_physical_topology")) <= 1
    /\ pc = "done" /\ _host_list # << >> =>
          Cardinality(Requests("get_physical_topology")) = 1
    /\ \A k \in Requests("get_physical_topology") :
          ~apiLog[k].ok => invHosts = {}

\* C10: the device sequence an invocation of _get_inventory produces is the
\* concatenation of the pages fetched during that invocation only: against an
\* unchanged remote a second invocation yields what the first one did, with no
\* device carried over or duplicated.
C10_FullResync ==
    returned.set =>
        /\ returned.value = Concat(pages)
        /\ returned.value = remoteDevices
        /\ \A i, j \in 1..Len(returned.value) :
              returned.value[i].id = returned.value[j].id => i = j

\* C10 on the first invocation made on a constructed instance.
C10_FirstInvocation == runs = 1 => C10_FullResync

====
